---- MODULE Spec2Model ----
(***************************************************************************)
(* Power-save (PS) negotiation state machine of the RSI 91x driver,        *)
(* ubuntu/rsi/rsi_91x_ps.c: rsi_enable_ps, rsi_disable_ps, rsi_conf_uapsd  *)
(* and rsi_handle_ps_confirm acting on adapter->ps_state, together with    *)
(* the transport (rsi_send_ps_request) and the firmware that answers the   *)
(* requests.                                                               *)
(***************************************************************************)
EXTENDS Integers, Sequences, FiniteSets

VARIABLES
    ps_state,   \* adapter->ps_state
    reqq,       \* requests handed to the transport, not yet applied by the firmware
    cfmq,       \* confirmation buffers produced by the firmware, not yet handled
    fw_ps,      \* power-save setting the firmware applied last
    last,       \* observation of the last call: its arguments and effects
    owner,      \* place in flight (1 = oldest) of the request the pending state waits for, 0 if none
    pc          \* where each execution context stands inside a call that runs unserialized

vars == <<ps_state, reqq, cfmq, fw_ps, last, owner, pc>>

(***************************************************************************)
(* Bounds of the model.                                                    *)
(***************************************************************************)
\* requests and confirmations in flight at the same time
MaxOutstanding == 3

\* byte values tried at the two confirmation-type positions of a stray buffer
StrayBytes == {0, 1, 2, 255}

\* return codes of rsi_send_ps_request: 0 on success, an errno otherwise
SendRcs == {0, -1, -12}

(***************************************************************************)
(* Constants of rsi_ps.h and rsi_mgmt.h.                                   *)
(***************************************************************************)
PS_NONE == "PS_NONE"
PS_ENABLE_REQ_SENT == "PS_ENABLE_REQ_SENT"
PS_DISABLE_REQ_SENT == "PS_DISABLE_REQ_SENT"
PS_ENABLED == "PS_ENABLED"

ps_states == {PS_NONE, PS_ENABLE_REQ_SENT, PS_DISABLE_REQ_SENT, PS_ENABLED}

PS_CONFIRM_INDEX == 12
SLEEP_REQUEST == 1
WAKEUP_REQUEST == 2

ERR_ZONE == "ERR_ZONE"
INFO_ZONE == "INFO_ZONE"

\* a function of return type void returns nothing
VOID == "void"

(***************************************************************************)
(* str_psstate(): the PS state in string format.                           *)
(***************************************************************************)
str_psstate(state) ==
    CASE state = PS_NONE -> "PS_NONE"
      [] state = PS_DISABLE_REQ_SENT -> "PS_DISABLE_REQ_SENT"
      [] state = PS_ENABLE_REQ_SENT -> "PS_ENABLE_REQ_SENT"
      [] state = PS_ENABLED -> "PS_ENABLED"
      [] OTHER -> "INVALID_STATE"

(***************************************************************************)
(* The functions work on a context c: the adapter's ps_state, the          *)
(* transport's queue reqq, and what the call did so far: the sends it      *)
(* attempted (<<enable, rc>>) and the lines it logged.                     *)
(***************************************************************************)
Ctx(st, q) == [ps_state |-> st, reqq |-> q, sends |-> <<>>, log |-> <<>>]

ven_rsi_dbg(c, zone, text, arg) ==
    [c EXCEPT !.log = Append(@, <<zone, text, arg>>)]

\* The transport: a request that is dispatched (rc = 0) is queued for the
\* firmware; a failed one is dropped.
rsi_send_ps_request(c, enable, rc) ==
    [c EXCEPT !.sends = Append(@, <<enable, rc>>),
              !.reqq = IF rc = 0 THEN Append(@, enable) ELSE @]

rsi_modify_ps_state(c, nstate) ==
    [ven_rsi_dbg(c, INFO_ZONE, "PS state changed",
                 <<str_psstate(c.ps_state), str_psstate(nstate)>>)
        EXCEPT !.ps_state = nstate]

\* rsi_enable_ps without its state check
rsi_enable_ps_nocheck(c, rc) ==
    LET c1 == rsi_send_ps_request(c, TRUE, rc)
    IN  IF rc # 0
        THEN ven_rsi_dbg(c1, ERR_ZONE, "Failed to send PS request", "")
        ELSE rsi_modify_ps_state(c1, PS_ENABLE_REQ_SENT)

\* rsi_enable_ps without the return after a failed send
rsi_enable_ps_optimistic(c, rc) ==
    IF c.ps_state # PS_NONE
    THEN ven_rsi_dbg(c, ERR_ZONE, "Cannot accept enable PS",
                     str_psstate(c.ps_state))
    ELSE LET c1 == rsi_send_ps_request(c, TRUE, rc)
             c2 == IF rc # 0
                   THEN ven_rsi_dbg(c1, ERR_ZONE,
                                    "Failed to send PS request", "")
                   ELSE c1
         IN  rsi_modify_ps_state(c2, PS_ENABLE_REQ_SENT)

\* rsi_enable_ps rejecting only PS_ENABLED
rsi_enable_ps_repeat(c, rc) ==
    IF c.ps_state = PS_ENABLED
    THEN ven_rsi_dbg(c, ERR_ZONE, "Cannot accept enable PS",
                     str_psstate(c.ps_state))
    ELSE LET c1 == rsi_send_ps_request(c, TRUE, rc)
         IN  IF rc # 0
             THEN ven_rsi_dbg(c1, ERR_ZONE, "Failed to send PS request", "")
             ELSE rsi_modify_ps_state(c1, PS_ENABLE_REQ_SENT)

rsi_enable_ps(c, rc) ==
    IF c.ps_state # PS_NONE
    THEN ven_rsi_dbg(c, ERR_ZONE, "Cannot accept enable PS",
                     str_psstate(c.ps_state))
    ELSE LET c1 == rsi_send_ps_request(c, TRUE, rc)
         IN  IF rc # 0
             THEN ven_rsi_dbg(c1, ERR_ZONE, "Failed to send PS request", "")
             ELSE rsi_modify_ps_state(c1, PS_ENABLE_REQ_SENT)

\* rsi_disable_ps rejecting only PS_NONE
rsi_disable_ps_loose(c, rc) ==
    IF c.ps_state = PS_NONE
    THEN ven_rsi_dbg(c, ERR_ZONE, "Cannot accept disable PS",
                     str_psstate(c.ps_state))
    ELSE LET c1 == rsi_send_ps_request(c, FALSE, rc)
         IN  IF rc # 0
             THEN ven_rsi_dbg(c1, ERR_ZONE, "Failed to send PS request", "")
             ELSE rsi_modify_ps_state(c1, PS_DISABLE_REQ_SENT)

\* rsi_disable_ps not waiting for the confirmation
rsi_disable_ps_direct(c, rc) ==
    IF c.ps_state # PS_ENABLED
    THEN ven_rsi_dbg(c, ERR_ZONE, "Cannot accept disable PS",
                     str_psstate(c.ps_state))
    ELSE LET c1 == rsi_send_ps_request(c, FALSE, rc)
         IN  IF rc # 0
             THEN ven_rsi_dbg(c1, ERR_ZONE, "Failed to send PS request", "")
             ELSE rsi_modify_ps_state(c1, PS_NONE)

rsi_disable_ps(c, rc) ==
    IF c.ps_state # PS_ENABLED
    THEN ven_rsi_dbg(c, ERR_ZONE, "Cannot accept disable PS",
                     str_psstate(c.ps_state))
    ELSE LET c1 == rsi_send_ps_request(c, FALSE, rc)
         IN  IF rc # 0
             THEN ven_rsi_dbg(c1, ERR_ZONE, "Failed to send PS request", "")
             ELSE rsi_modify_ps_state(c1, PS_DISABLE_REQ_SENT)

\* rsi_conf_uapsd without the return after a failed first send
rsi_conf_uapsd_noabort(c, rc1, rc2) ==
    IF c.ps_state # PS_ENABLED
    THEN c
    ELSE LET c1 == rsi_send_ps_request(c, FALSE, rc1)
             c1e == IF rc1 # 0
                    THEN ven_rsi_dbg(c1, ERR_ZONE,
                                     "Failed to send PS request", "")
                    ELSE c1
             c2 == rsi_send_ps_request(c1e, TRUE, rc2)
         IN  IF rc2 # 0
             THEN ven_rsi_dbg(c2, ERR_ZONE, "Failed to send PS request", "")
             ELSE c2

\* rsi_conf_uapsd rejecting the call the way rsi_disable_ps does
rsi_conf_uapsd_reject(c, rc1, rc2) ==
    IF c.ps_state # PS_ENABLED
    THEN ven_rsi_dbg(c, ERR_ZONE, "Cannot accept disable PS",
                     str_psstate(c.ps_state))
    ELSE LET c1 == rsi_send_ps_request(c, FALSE, rc1)
         IN  IF rc1 # 0
             THEN ven_rsi_dbg(c1, ERR_ZONE, "Failed to send PS request", "")
             ELSE LET c2 == rsi_send_ps_request(c1, TRUE, rc2)
                  IN  IF rc2 # 0
                      THEN ven_rsi_dbg(c2, ERR_ZONE,
                                       "Failed to send PS request", "")
                      ELSE c2

\* rsi_conf_uapsd recording the enable request it sent
rsi_conf_uapsd_tracks(c, rc1, rc2) ==
    IF c.ps_state # PS_ENABLED
    THEN c
    ELSE LET c1 == rsi_send_ps_request(c, FALSE, rc1)
         IN  IF rc1 # 0
             THEN ven_rsi_dbg(c1, ERR_ZONE, "Failed to send PS request", "")
             ELSE LET c2 == rsi_send_ps_request(c1, TRUE, rc2)
                  IN  IF rc2 # 0
                      THEN ven_rsi_dbg(c2, ERR_ZONE,
                                       "Failed to send PS request", "")
                      ELSE rsi_modify_ps_state(c2, PS_ENABLE_REQ_SENT)

\* rc1 and rc2 are the results of the first and of the second send
rsi_conf_uapsd(c, rc1, rc2) ==
    IF c.ps_state # PS_ENABLED
    THEN c
    ELSE LET c1 == rsi_send_ps_request(c, FALSE, rc1)
         IN  IF rc1 # 0
             THEN ven_rsi_dbg(c1, ERR_ZONE, "Failed to send PS request", "")
             ELSE LET c2 == rsi_send_ps_request(c1, TRUE, rc2)
                  IN  IF rc2 # 0
                      THEN ven_rsi_dbg(c2, ERR_ZONE,
                                       "Failed to send PS request", "")
                      ELSE c2

(***************************************************************************)
(* Confirmation buffers: sequences of bytes; msg[i + 1] is the C msg[i].   *)
(***************************************************************************)
MsgLen == PS_CONFIRM_INDEX + 2

\* a buffer whose two bytes at PS_CONFIRM_INDEX are lo and hi
MsgOf(lo, hi) ==
    [i \in 1..MsgLen |-> IF i = PS_CONFIRM_INDEX + 1 THEN lo
                         ELSE IF i = PS_CONFIRM_INDEX + 2 THEN hi
                         ELSE 0]

\* *(u16 *)&msg[PS_CONFIRM_INDEX] on a little-endian host
ReadU16(msg) ==
    (msg[PS_CONFIRM_INDEX + 1] + 256 * msg[PS_CONFIRM_INDEX + 2]) % 65536

\* rsi_handle_ps_confirm failing on a confirmation that does not match the state
rsi_handle_ps_confirm_strict(c, msg) ==
    LET cfm_type == ReadU16(msg)
    IN  CASE cfm_type = SLEEP_REQUEST ->
               IF c.ps_state = PS_ENABLE_REQ_SENT
               THEN <<rsi_modify_ps_state(c, PS_ENABLED), 0>>
               ELSE <<c, -1>>
          [] cfm_type = WAKEUP_REQUEST ->
               IF c.ps_state = PS_DISABLE_REQ_SENT
               THEN <<rsi_modify_ps_state(c, PS_NONE), 0>>
               ELSE <<c, -1>>
          [] OTHER ->
               <<ven_rsi_dbg(c, ERR_ZONE, "Invalid PS confirm type",
                             <<cfm_type, str_psstate(c.ps_state)>>), -1>>

\* rsi_handle_ps_confirm whose default case breaks instead of returning -1
rsi_handle_ps_confirm_nofail(c, msg) ==
    LET cfm_type == ReadU16(msg)
    IN  CASE cfm_type = SLEEP_REQUEST ->
               <<IF c.ps_state = PS_ENABLE_REQ_SENT
                 THEN rsi_modify_ps_state(c, PS_ENABLED)
                 ELSE c, 0>>
          [] cfm_type = WAKEUP_REQUEST ->
               <<IF c.ps_state = PS_DISABLE_REQ_SENT
                 THEN rsi_modify_ps_state(c, PS_NONE)
                 ELSE c, 0>>
          [] OTHER ->
               <<ven_rsi_dbg(c, ERR_ZONE, "Invalid PS confirm type",
                             <<cfm_type, str_psstate(c.ps_state)>>), 0>>

\* rsi_handle_ps_confirm taking a wakeup confirmation in every state but PS_NONE
rsi_handle_ps_confirm_wakes(c, msg) ==
    LET cfm_type == ReadU16(msg)
    IN  CASE cfm_type = SLEEP_REQUEST ->
               <<IF c.ps_state = PS_ENABLE_REQ_SENT
                 THEN rsi_modify_ps_state(c, PS_ENABLED)
                 ELSE c, 0>>
          [] cfm_type = WAKEUP_REQUEST ->
               <<IF c.ps_state # PS_NONE
                 THEN rsi_modify_ps_state(c, PS_NONE)
                 ELSE c, 0>>
          [] OTHER ->
               <<ven_rsi_dbg(c, ERR_ZONE, "Invalid PS confirm type",
                             <<cfm_type, str_psstate(c.ps_state)>>), -1>>

\* rsi_handle_ps_confirm taking a sleep confirmation in both pending states
rsi_handle_ps_confirm_anypending(c, msg) ==
    LET cfm_type == ReadU16(msg)
    IN  CASE cfm_type = SLEEP_REQUEST ->
               <<IF c.ps_state \in {PS_ENABLE_REQ_SENT, PS_DISABLE_REQ_SENT}
                 THEN rsi_modify_ps_state(c, PS_ENABLED)
                 ELSE c, 0>>
          [] cfm_type = WAKEUP_REQUEST ->
               <<IF c.ps_state = PS_DISABLE_REQ_SENT
                 THEN rsi_modify_ps_state(c, PS_NONE)
                 ELSE c, 0>>
          [] OTHER ->
               <<ven_rsi_dbg(c, ERR_ZONE, "Invalid PS confirm type",
                             <<cfm_type, str_psstate(c.ps_state)>>), -1>>

\* the result is <<context, return value>>
rsi_handle_ps_confirm(c, msg) ==
    LET cfm_type == ReadU16(msg)
    IN  CASE cfm_type = SLEEP_REQUEST ->
               <<IF c.ps_state = PS_ENABLE_REQ_SENT
                 THEN rsi_modify_ps_state(c, PS_ENABLED)
                 ELSE c, 0>>
          [] cfm_type = WAKEUP_REQUEST ->
               <<IF c.ps_state = PS_DISABLE_REQ_SENT
                 THEN rsi_modify_ps_state(c, PS_NONE)
                 ELSE c, 0>>
          [] OTHER ->
               <<ven_rsi_dbg(c, ERR_ZONE, "Invalid PS confirm type",
                             <<cfm_type, str_psstate(c.ps_state)>>), -1>>

(***************************************************************************)
(* The firmware answers an enable request with a sleep confirmation and a  *)
(* disable request with a wakeup confirmation.                             *)
(***************************************************************************)
FwConfirmOf(enable) ==
    IF enable THEN MsgOf(SLEEP_REQUEST % 256, SLEEP_REQUEST \div 256)
    ELSE MsgOf(WAKEUP_REQUEST % 256, WAKEUP_REQUEST \div 256)

Outstanding == Len(reqq) + Len(cfmq)

(***************************************************************************)
(* State after the adapter is set up.                                      *)
(***************************************************************************)
\* execution contexts: the control paths that call rsi_enable_ps,
\* rsi_disable_ps and rsi_conf_uapsd, and the path that receives the
\* firmware's messages and calls rsi_handle_ps_confirm
Callers == {"caller1", "caller2"}
EventCtx == "event"
Contexts == Callers \cup {EventCtx}

NoCall ==
    [op |-> "none", pre |-> PS_NONE, msg |-> <<>>, stray |-> FALSE,
     sends |-> <<>>, log |-> <<>>, ret |-> VOID]

Init ==
    /\ ps_state = PS_NONE
    /\ reqq = <<>>
    /\ cfmq = <<>>
    /\ fw_ps = FALSE
    /\ last = NoCall
    /\ owner = 0
    /\ pc = [t \in Contexts |-> "idle"]

\* the call op(msg) ran from the current state, ended in context c and returned ret
Observe(op, msg, stray, c, ret) ==
    [op |-> op, pre |-> ps_state, msg |-> msg, stray |-> stray,
     sends |-> c.sends, log |-> c.log, ret |-> ret]

Commit(op, c) ==
    /\ Len(c.reqq) + Len(cfmq) <= MaxOutstanding
    /\ ps_state' = c.ps_state
    /\ reqq' = c.reqq
    /\ last' = Observe(op, <<>>, FALSE, c, VOID)
    /\ owner' = IF c.ps_state # ps_state
                THEN Len(c.reqq) + Len(cfmq)
                ELSE owner
    /\ UNCHANGED <<cfmq, fw_ps, pc>>

Enable ==
    \E rc \in SendRcs :
        Commit("enable", rsi_enable_ps(Ctx(ps_state, reqq), rc))

Disable ==
    \E rc \in SendRcs :
        Commit("disable", rsi_disable_ps(Ctx(ps_state, reqq), rc))

ConfUapsd ==
    \E rc1 \in SendRcs, rc2 \in SendRcs :
        Commit("conf_uapsd", rsi_conf_uapsd(Ctx(ps_state, reqq), rc1, rc2))

\* the firmware applies the oldest request and produces its confirmation
FwApply ==
    /\ reqq # <<>>
    /\ fw_ps' = Head(reqq)
    /\ reqq' = Tail(reqq)
    /\ cfmq' = Append(cfmq, FwConfirmOf(Head(reqq)))
    /\ UNCHANGED <<ps_state, last, owner, pc>>

Confirm(msg, stray) ==
    LET r == rsi_handle_ps_confirm(Ctx(ps_state, reqq), msg)
    IN  /\ ps_state' = r[1].ps_state
        /\ last' = Observe("confirm", msg, stray, r[1], r[2])
        /\ UNCHANGED <<reqq, fw_ps, pc>>

\* the oldest confirmation of the firmware reaches the handler
DeliverConfirm ==
    /\ cfmq # <<>>
    /\ Confirm(Head(cfmq), FALSE)
    /\ cfmq' = Tail(cfmq)
    /\ owner' = IF ps_state' # ps_state \/ owner = 0 THEN 0 ELSE owner - 1

\* a buffer that answers no request (duplicate, stray or malformed) reaches the handler
StrayConfirm ==
    \E lo \in StrayBytes, hi \in StrayBytes :
        /\ Confirm(MsgOf(lo, hi), TRUE)
        /\ owner' = IF ps_state' # ps_state THEN 0 ELSE owner
        /\ UNCHANGED cfmq

\* every confirmation is the firmware's answer to a request
NextFw ==
    \/ Enable
    \/ Disable
    \/ ConfUapsd
    \/ FwApply
    \/ DeliverConfirm

SpecFw == Init /\ [][NextFw]_vars

\* fair delivery: the firmware answers every request it was handed, and every
\* confirmation it produced is passed to rsi_handle_ps_confirm
SpecFwFair ==
    /\ SpecFw
    /\ WF_vars(FwApply)
    /\ WF_vars(DeliverConfirm)

(***************************************************************************)
(* The same functions run from several execution contexts.  None of them   *)
(* takes a lock, so a call is a sequence of steps, one for each access to  *)
(* ps_state or to the transport, and the steps of different contexts       *)
(* interleave.                                                             *)
(***************************************************************************)
Goto(t, loc) == pc' = [pc EXCEPT ![t] = loc]

\* one send of a call that runs step by step; then the call goes on at next,
\* or returns when the send failed
SendStep(t, enable, next) ==
    \E rc \in SendRcs :
        LET c == rsi_send_ps_request(Ctx(ps_state, reqq), enable, rc)
        IN  /\ Len(c.reqq) + Len(cfmq) <= MaxOutstanding
            /\ reqq' = c.reqq
            /\ Goto(t, IF rc # 0 THEN "idle" ELSE next)
            /\ UNCHANGED <<ps_state, cfmq, fw_ps, last, owner>>

\* the call of rsi_modify_ps_state that ends a call
WriteStep(t, nstate) ==
    /\ ps_state' = rsi_modify_ps_state(Ctx(ps_state, reqq), nstate).ps_state
    /\ Goto(t, "idle")
    /\ UNCHANGED <<reqq, cfmq, fw_ps, last, owner>>

\* the state check that opens a call: the call returns unless the state is required
CheckStep(t, required, next) ==
    /\ Goto(t, IF ps_state # required THEN "idle" ELSE next)
    /\ UNCHANGED <<ps_state, reqq, cfmq, fw_ps, last, owner>>

EnableCheck(t) ==
    /\ pc[t] = "idle"
    /\ CheckStep(t, PS_NONE, "enable_send")

EnableSend(t) ==
    /\ pc[t] = "enable_send"
    /\ SendStep(t, TRUE, "enable_write")

EnableWrite(t) ==
    /\ pc[t] = "enable_write"
    /\ WriteStep(t, PS_ENABLE_REQ_SENT)

DisableCheck(t) ==
    /\ pc[t] = "idle"
    /\ CheckStep(t, PS_ENABLED, "disable_send")

DisableSend(t) ==
    /\ pc[t] = "disable_send"
    /\ SendStep(t, FALSE, "disable_write")

DisableWrite(t) ==
    /\ pc[t] = "disable_write"
    /\ WriteStep(t, PS_DISABLE_REQ_SENT)

UapsdCheck(t) ==
    /\ pc[t] = "idle"
    /\ CheckStep(t, PS_ENABLED, "uapsd_send1")

UapsdSend1(t) ==
    /\ pc[t] = "uapsd_send1"
    /\ SendStep(t, FALSE, "uapsd_send2")

UapsdSend2(t) ==
    /\ pc[t] = "uapsd_send2"
    /\ SendStep(t, TRUE, "idle")

\* rsi_handle_ps_confirm takes the firmware's oldest confirmation, reads its
\* type and compares ps_state
CfmRead ==
    /\ pc[EventCtx] = "idle"
    /\ cfmq # <<>>
    /\ cfmq' = Tail(cfmq)
    /\ LET cfm_type == ReadU16(Head(cfmq))
       IN  Goto(EventCtx,
                CASE cfm_type = SLEEP_REQUEST
                        /\ ps_state = PS_ENABLE_REQ_SENT -> "cfm_enabled"
                  [] cfm_type = WAKEUP_REQUEST
                        /\ ps_state = PS_DISABLE_REQ_SENT -> "cfm_none"
                  [] OTHER -> "idle")
    /\ UNCHANGED <<ps_state, reqq, fw_ps, last, owner>>

CfmWrite ==
    /\ pc[EventCtx] \in {"cfm_enabled", "cfm_none"}
    /\ WriteStep(EventCtx,
                 IF pc[EventCtx] = "cfm_enabled" THEN PS_ENABLED ELSE PS_NONE)

CallerStep(t) ==
    \/ EnableCheck(t)
    \/ EnableSend(t)
    \/ EnableWrite(t)
    \/ DisableCheck(t)
    \/ DisableSend(t)
    \/ DisableWrite(t)
    \/ UapsdCheck(t)
    \/ UapsdSend1(t)
    \/ UapsdSend2(t)

NextConc ==
    \/ \E t \in Callers : CallerStep(t)
    \/ FwApply
    \/ CfmRead
    \/ CfmWrite

SpecConc == Init /\ [][NextConc]_vars

\* a call that has started goes on to its end
CallProgress(t) ==
    \/ EnableSend(t)
    \/ EnableWrite(t)
    \/ DisableSend(t)
    \/ DisableWrite(t)
    \/ UapsdSend1(t)
    \/ UapsdSend2(t)

\* fair delivery for calls that run unserialized: every started call
\* finishes, the firmware answers every request it was handed, and every
\* confirmation is handled by rsi_handle_ps_confirm to its end
SpecConcFair ==
    /\ SpecConc
    /\ \A t \in Callers : WF_vars(CallProgress(t))
    /\ WF_vars(FwApply)
    /\ WF_vars(CfmRead)
    /\ WF_vars(CfmWrite)

\* the handler is also called with buffers that answer no request
Next ==
    \/ Enable
    \/ Disable
    \/ ConfUapsd
    \/ FwApply
    \/ DeliverConfirm
    \/ StrayConfirm

Spec == Init /\ [][Next]_vars

TypeOK ==
    /\ ps_state \in ps_states
    /\ fw_ps \in BOOLEAN
    /\ \A i \in 1..Len(reqq) : reqq[i] \in BOOLEAN
    /\ Outstanding <= MaxOutstanding
    /\ owner \in 0..MaxOutstanding
    /\ pc \in [Contexts -> {"idle", "enable_send", "enable_write",
                             "disable_send", "disable_write", "uapsd_send1",
                             "uapsd_send2", "cfm_enabled", "cfm_none"}]

(***************************************************************************)
(* Properties.                                                             *)
(***************************************************************************)
SendOk(enable) == <<enable, 0>>

NoErrorLogged == \A i \in 1..Len(last.log) : last.log[i][1] # ERR_ZONE

IsConfirmCall == last.op = "confirm"

Recognized(t) == t \in {SLEEP_REQUEST, WAKEUP_REQUEST}

\* C1: rsi_enable_ps changes the state only when it is called in PS_NONE and
\* its send succeeds, and the new state is then PS_ENABLE_REQ_SENT; called in
\* any other state it leaves the state unchanged and sends nothing.
C1_EnableOnlyFromNone ==
    last.op = "enable" =>
        /\ ps_state # last.pre =>
              /\ last.pre = PS_NONE
              /\ last.sends = <<SendOk(TRUE)>>
              /\ ps_state = PS_ENABLE_REQ_SENT
        /\ (last.pre = PS_NONE /\ last.sends = <<SendOk(TRUE)>>) =>
              ps_state = PS_ENABLE_REQ_SENT
        /\ last.pre # PS_NONE => (ps_state = last.pre /\ last.sends = <<>>)

\* an enable call was rejected in PS_ENABLED
C1_Witness ==
    /\ last.op = "enable"
    /\ last.pre = PS_ENABLED
    /\ ps_state = PS_ENABLED
    /\ last.sends = <<>>

\* C2: rsi_disable_ps changes the state only when it is called in PS_ENABLED
\* and its send of enable = false succeeds, and the new state is then
\* PS_DISABLE_REQ_SENT; called in any other state it leaves the state
\* unchanged and sends nothing.
C2_DisableOnlyFromEnabled ==
    last.op = "disable" =>
        /\ ps_state # last.pre =>
              /\ last.pre = PS_ENABLED
              /\ last.sends = <<SendOk(FALSE)>>
              /\ ps_state = PS_DISABLE_REQ_SENT
        /\ (last.pre = PS_ENABLED /\ last.sends = <<SendOk(FALSE)>>) =>
              ps_state = PS_DISABLE_REQ_SENT
        /\ last.pre # PS_ENABLED => (ps_state = last.pre /\ last.sends = <<>>)

\* a disable call was rejected while an enable request was pending
C2_Witness ==
    /\ last.op = "disable"
    /\ last.pre = PS_ENABLE_REQ_SENT
    /\ ps_state = PS_ENABLE_REQ_SENT
    /\ last.sends = <<>>

\* C3: in every reachable state at most one request that was handed to the
\* transport successfully still awaits its confirmation from the firmware.
C3_AtMostOneOutstanding == Outstanding <= 1

\* C4: rsi_handle_ps_confirm with a recognized confirmation type moves
\* PS_ENABLE_REQ_SENT to PS_ENABLED on a sleep confirmation and
\* PS_DISABLE_REQ_SENT to PS_NONE on a wakeup confirmation; in every other
\* state it leaves the state unchanged; in all cases it returns 0.
C4_ConfirmTable ==
    (IsConfirmCall /\ Recognized(ReadU16(last.msg))) =>
        /\ last.ret = 0
        /\ ps_state =
              IF last.pre = PS_ENABLE_REQ_SENT
                    /\ ReadU16(last.msg) = SLEEP_REQUEST
              THEN PS_ENABLED
              ELSE IF last.pre = PS_DISABLE_REQ_SENT
                         /\ ReadU16(last.msg) = WAKEUP_REQUEST
                   THEN PS_NONE
                   ELSE last.pre

\* a sleep confirmation was ignored while a disable request was pending
C4_Witness ==
    /\ IsConfirmCall
    /\ ReadU16(last.msg) = SLEEP_REQUEST
    /\ last.pre = PS_DISABLE_REQ_SENT
    /\ ps_state = PS_DISABLE_REQ_SENT
    /\ last.ret = 0

\* C5: rsi_handle_ps_confirm with a confirmation type other than the sleep
\* and wakeup codes returns the error result -1 and leaves the state
\* unchanged, whatever the state is.
C5_UnrecognizedConfirm ==
    (IsConfirmCall /\ ~Recognized(ReadU16(last.msg))) =>
        (last.ret = -1 /\ ps_state = last.pre)

\* the type 0xFFFF was refused while an enable request was pending
C5_Witness ==
    /\ IsConfirmCall
    /\ ReadU16(last.msg) = 65535
    /\ last.pre = PS_ENABLE_REQ_SENT
    /\ last.ret = -1

\* C6: when the send fails in rsi_enable_ps called in PS_NONE or in
\* rsi_disable_ps called in PS_ENABLED, the state after the call is the state
\* before it and exactly one send was attempted.
C6_FailedSendKeepsState ==
    /\ (last.op = "enable" /\ last.pre = PS_NONE
            /\ last.sends # <<SendOk(TRUE)>>) =>
          /\ ps_state = last.pre
          /\ Len(last.sends) = 1
          /\ last.sends[1][1] = TRUE
    /\ (last.op = "disable" /\ last.pre = PS_ENABLED
            /\ last.sends # <<SendOk(FALSE)>>) =>
          /\ ps_state = last.pre
          /\ Len(last.sends) = 1
          /\ last.sends[1][1] = FALSE

\* the send of an enable call in PS_NONE failed
C6_Witness ==
    /\ last.op = "enable"
    /\ last.pre = PS_NONE
    /\ Len(last.sends) = 1
    /\ last.sends[1][2] # 0
    /\ ps_state = PS_NONE

\* C7: rsi_conf_uapsd called in PS_ENABLED sends a disable request and then an
\* enable request: two sends when the first succeeds, and only the disable
\* request when the first fails.
C7_UapsdSendOrder ==
    (last.op = "conf_uapsd" /\ last.pre = PS_ENABLED) =>
        /\ Len(last.sends) >= 1
        /\ last.sends[1][1] = FALSE
        /\ IF last.sends[1][2] = 0
           THEN Len(last.sends) = 2 /\ last.sends[2][1] = TRUE
           ELSE Len(last.sends) = 1

\* the first send of a reconfiguration failed
C7_Witness ==
    /\ last.op = "conf_uapsd"
    /\ last.pre = PS_ENABLED
    /\ Len(last.sends) = 1
    /\ last.sends[1][2] # 0

\* C8: rsi_conf_uapsd called in a state other than PS_ENABLED sends nothing,
\* reports no error and leaves the state unchanged.
C8_UapsdNoOp ==
    (last.op = "conf_uapsd" /\ last.pre # PS_ENABLED) =>
        /\ last.sends = <<>>
        /\ NoErrorLogged
        /\ ps_state = last.pre

\* a reconfiguration was called while a disable request was pending
C8_Witness ==
    /\ last.op = "conf_uapsd"
    /\ last.pre = PS_DISABLE_REQ_SENT
    /\ ps_state = PS_DISABLE_REQ_SENT

\* C9: rsi_conf_uapsd never changes the state, whatever the state is and
\* whatever the results of its sends are.
C9_UapsdKeepsState ==
    last.op = "conf_uapsd" => ps_state = last.pre

\* both sends of a reconfiguration succeeded
C9_Witness ==
    /\ last.op = "conf_uapsd"
    /\ last.sends = <<SendOk(FALSE), SendOk(TRUE)>>
    /\ ps_state = PS_ENABLED

\* C10: a successful rsi_enable_ps in PS_NONE followed by a sleep confirmation
\* ends in PS_ENABLED, and in PS_ENABLED no confirmation of any type changes
\* the state.
C10_EnableConfirmStable ==
    [][(DeliverConfirm \/ StrayConfirm) =>
          /\ (/\ last.op = "enable"
              /\ last.pre = PS_NONE
              /\ last.sends = <<SendOk(TRUE)>>
              /\ ReadU16(last'.msg) = SLEEP_REQUEST) =>
                 ps_state' = PS_ENABLED
          /\ ps_state = PS_ENABLED => ps_state' = PS_ENABLED]_vars

\* a wakeup confirmation was ignored in PS_ENABLED
C10_Witness ==
    /\ IsConfirmCall
    /\ ReadU16(last.msg) = WAKEUP_REQUEST
    /\ last.pre = PS_ENABLED
    /\ ps_state = PS_ENABLED

\* a step in which rsi_handle_ps_confirm runs on a buffer of type t
ConfirmStepOf(t) ==
    /\ DeliverConfirm \/ StrayConfirm
    /\ ReadU16(last'.msg) = t

\* C11: rsi_enable_ps called twice in a row from PS_NONE with no confirmation
\* in between: after the first call sent its request and moved to
\* PS_ENABLE_REQ_SENT, the second call is rejected with the state
\* PS_ENABLE_REQ_SENT reported, the state stays PS_ENABLE_REQ_SENT and no
\* second request is sent.
C11_SecondEnableRejected ==
    [][(/\ last.op = "enable"
        /\ last.pre = PS_NONE
        /\ last.sends = <<SendOk(TRUE)>>
        /\ Enable) =>
          /\ ps_state = PS_ENABLE_REQ_SENT
          /\ ps_state' = PS_ENABLE_REQ_SENT
          /\ last'.sends = <<>>
          /\ reqq' = reqq
          /\ last'.log = <<<<ERR_ZONE, "Cannot accept enable PS",
                            "PS_ENABLE_REQ_SENT">>>>]_vars

\* an enable call was rejected right after the enable call that sent the request
C11_Witness ==
    /\ last.op = "enable"
    /\ last.pre = PS_ENABLE_REQ_SENT
    /\ ps_state = PS_ENABLE_REQ_SENT
    /\ last.sends = <<>>
    /\ reqq = <<TRUE>>
    /\ cfmq = <<>>

\* C12: a pending request that is not confirmed keeps the state: the state
\* leaves PS_ENABLE_REQ_SENT only in a call of rsi_handle_ps_confirm with a
\* sleep confirmation, and PS_DISABLE_REQ_SENT only in one with a wakeup
\* confirmation.
C12_PendingStays ==
    [][/\ (ps_state = PS_ENABLE_REQ_SENT /\ ps_state' # PS_ENABLE_REQ_SENT)
             => ConfirmStepOf(SLEEP_REQUEST)
       /\ (ps_state = PS_DISABLE_REQ_SENT /\ ps_state' # PS_DISABLE_REQ_SENT)
             => ConfirmStepOf(WAKEUP_REQUEST)]_vars

\* a wakeup confirmation was ignored while an enable request was pending
C12_Witness ==
    /\ IsConfirmCall
    /\ ReadU16(last.msg) = WAKEUP_REQUEST
    /\ last.pre = PS_ENABLE_REQ_SENT
    /\ ps_state = PS_ENABLE_REQ_SENT
    /\ last.ret = 0

\* the four state changes of the state machine, each with the call that makes it
LegalEdge ==
    \/ ps_state = PS_NONE /\ ps_state' = PS_ENABLE_REQ_SENT /\ Enable
    \/ /\ ps_state = PS_ENABLE_REQ_SENT
       /\ ps_state' = PS_ENABLED
       /\ ConfirmStepOf(SLEEP_REQUEST)
    \/ ps_state = PS_ENABLED /\ ps_state' = PS_DISABLE_REQ_SENT /\ Disable
    \/ /\ ps_state = PS_DISABLE_REQ_SENT
       /\ ps_state' = PS_NONE
       /\ ConfirmStepOf(WAKEUP_REQUEST)

\* C14: starting from PS_NONE the state is always one of the four states, and
\* every call either leaves it unchanged or takes one of the edges
\* PS_NONE -> PS_ENABLE_REQ_SENT (enable), PS_ENABLE_REQ_SENT -> PS_ENABLED
\* (sleep confirmation), PS_ENABLED -> PS_DISABLE_REQ_SENT (disable),
\* PS_DISABLE_REQ_SENT -> PS_NONE (wakeup confirmation).
C14_FourEdges ==
    /\ [](ps_state \in ps_states)
    /\ [][ps_state' = ps_state \/ LegalEdge]_vars

\* the wakeup confirmation closed the cycle back to PS_NONE
C14_Witness ==
    /\ IsConfirmCall
    /\ last.pre = PS_DISABLE_REQ_SENT
    /\ ps_state = PS_NONE

\* no request and no confirmation is in flight
Quiescent == reqq = <<>> /\ cfmq = <<>>

\* C16: with a firmware that applies the requests in order and confirms each
\* of them, whenever nothing is in flight the state is PS_ENABLED exactly when
\* the firmware applied an enable request last, and PS_NONE exactly when it
\* applied a disable request last or none at all.
C16_AgreesWithFirmware ==
    Quiescent =>
        /\ ps_state = PS_ENABLED <=> fw_ps
        /\ ps_state = PS_NONE <=> ~fw_ps

\* C17: a confirmation of the firmware changes the state only if it is the
\* confirmation of the request sent by the enable or disable call that made
\* the state pending, never the confirmation of an earlier request.
C17_OwnConfirmationOnly ==
    [][(DeliverConfirm /\ ps_state' # ps_state) => owner = 1]_vars

\* C18: under fair delivery, whenever the state is PS_ENABLE_REQ_SENT it
\* eventually becomes PS_ENABLED, and whenever it is PS_DISABLE_REQ_SENT it
\* eventually becomes PS_NONE, whatever calls are made in the meantime.
C18_PendingResolves ==
    /\ (ps_state = PS_ENABLE_REQ_SENT) ~> (ps_state = PS_ENABLED)
    /\ (ps_state = PS_DISABLE_REQ_SENT) ~> (ps_state = PS_NONE)

\* C13: when the calls run in different execution contexts,
\* rsi_handle_ps_confirm never reads ps_state while rsi_enable_ps or
\* rsi_disable_ps stands between its send and its write of the state.
C13_ConfirmNotInsideCall ==
    [][CfmRead =>
          \A t \in Callers : pc[t] \notin {"enable_write", "disable_write"}]_vars

\* C15: of two rsi_enable_ps calls that run concurrently in PS_NONE at most
\* one hands a request to the transport: a call hands its request over only
\* while the state is still PS_NONE and no other call has handed over a
\* request it has not recorded yet; the same for rsi_disable_ps and
\* PS_ENABLED.
C15_OneRequestAmongCallers ==
    [][\A t \in Callers :
          /\ (EnableSend(t) /\ pc'[t] = "enable_write") =>
                /\ ps_state = PS_NONE
                /\ \A u \in Callers \ {t} : pc[u] # "enable_write"
          /\ (DisableSend(t) /\ pc'[t] = "disable_write") =>
                /\ ps_state = PS_ENABLED
                /\ \A u \in Callers \ {t} : pc[u] # "disable_write"]_vars
====
